---- MODULE Spec2Model ----
(***************************************************************************)
(* Model of the PE (Portable Executable) parser of package pe:             *)
(* parse() and its five stages, the data-directory dispatcher, the import, *)
(* base relocation and debug directory parsers, and the FPO bit-field      *)
(* decoder of internal/pe.  The input is a byte buffer; every stage reads  *)
(* it through the same reader primitives the Go code uses (bytes.Reader,   *)
(* io.ReadFull via binary.Read, io.SectionReader, io.LimitedReader).       *)
(***************************************************************************)
EXTENDS Integers, Sequences, FiniteSets, TLC

VARIABLES
    content,   \* the input buffer handed to parse (File.Content)
    pc,        \* position of parse: the stage that runs next
    pos,       \* read offset of the bytes.Reader r over content
    file,      \* the File under construction
    idx,       \* loop index of parseDataDirsContent
    ret,       \* what parse handed to its caller
    trace,     \* stages that have run, in order
    reads,     \* the directory fetches made through File.ReadData, in order
    fpoIn,     \* Bitfield byte given to RawFPOData.FPOData
    fpoOut     \* the FPOData it produced

vars == <<content, pc, pos, file, idx, ret, trace, reads, fpoIn, fpoOut>>

----------------------------------------------------------------------------
(* Bounds of the explored inputs.                                          *)

\* largest number of non-zero import descriptors in an import directory
MaxImports == 2
\* largest number of 16-bit entries stored after a base relocation header
MaxEntries == 2
\* largest number of directory entries a header declares beyond the 16
MaxExtraDirs == 1

----------------------------------------------------------------------------
(* Program constants.                                                      *)

\* file offset of the PE header pointer
peOffsetPos == 60
\* binary.Size of pe.RawFileHeader
rawFileHeaderSize == 20
magic32 == 267
magic64 == 523
\* binary.Size of pe.RawOptHeader32 and pe.RawOptHeader64 (magic excluded)
rawOptHeader32Size == 94
rawOptHeader64Size == 110
\* binary.Size of DataDirectory, pe.RawSectionHeader
dataDirectorySize == 8
rawSectionHeaderSize == 40
\* number of data directories the dispatcher knows
nDirKinds == 16
\* binary.Size of pe.RawImportDirectory, pe.RawBaseRelocBlock,
\* pe.RawBaseRelocEntry, pe.RawDebugDirectory, pe.RawCodeViewInfo,
\* pe.RawFPOData
rawImportDirectorySize == 20
rawBaseRelocBlockSize == 8
rawBaseRelocEntrySize == 2
rawDebugDirectorySize == 28
rawCodeViewInfoSize == 16
rawFPODataSize == 16
\* enum.DebugType tags
DebugTypeCodeView == 2
DebugTypeFPO == 3
DebugTypeMisc == 4

signature == <<80, 69, 0, 0>>

----------------------------------------------------------------------------
(* Bytes.                                                                  *)

Byte == 0..255

Zeros(n) == [i \in 1..n |-> 0]

Min(a, b) == IF a < b THEN a ELSE b
Max(a, b) == IF a > b THEN a ELSE b

RECURSIVE LE(_)
\* binary.LittleEndian decoding of a byte string
LE(bs) == IF bs = <<>> THEN 0 ELSE Head(bs) + 256 * LE(Tail(bs))

U16(v) == <<v % 256, (v \div 256) % 256>>
U32(v) == <<v % 256, (v \div 256) % 256, (v \div 65536) % 256, (v \div 16777216) % 256>>
U64(v) == U32(v) \o <<0, 0, 0, 0>>

\* bs[off : off+n] with Go's 0-based offsets
Slice(bs, off, n) == SubSeq(bs, off + 1, off + n)

RECURSIVE Flatten(_)
Flatten(ss) == IF ss = <<>> THEN <<>> ELSE Head(ss) \o Flatten(Tail(ss))

----------------------------------------------------------------------------
(* Errors and readers.                                                     *)

Err(kind, expected, got) == [kind |-> kind, expected |-> expected, got |-> got]
EOF == Err("io.EOF", <<>>, <<>>)
ErrUnexpectedEOF == Err("io.ErrUnexpectedEOF", <<>>, <<>>)

\* io.ReadFull on a bytes.Reader over buf at offset p, as binary.Read uses it:
\* nothing left is io.EOF, a short read io.ErrUnexpectedEOF.
ReadFull(buf, p, n) ==
    IF p >= Len(buf) THEN [err |-> <<EOF>>, data |-> <<>>, pos |-> p]
    ELSE IF Len(buf) - p < n
        THEN [err |-> <<ErrUnexpectedEOF>>, data |-> <<>>, pos |-> Len(buf)]
        ELSE [err |-> <<>>, data |-> Slice(buf, p, n), pos |-> p + n]

----------------------------------------------------------------------------
(* Stage 1: the COFF file header.                                          *)

\* field offsets inside the records of internal/pe (raw.go)
nSectionsOff == 2
imageBaseOff32 == 26
nDataDirsOff32 == 90
imageBaseOff64 == 22
nDataDirsOff64 == 106
sectVirtualSizeOff == 8
sectRelAddrOff == 12
sectDataSizeOff == 16
sectDataOffsetOff == 20

\* io.NewSectionReader(r, off, n) followed by binary.Read of n bytes
SectionRead(c, off, n) == ReadFull(SubSeq(c, 1, Min(Len(c), off + n)), off, n)

sigMatchesPrefix(sig) == SubSeq(sig, 1, 2) = SubSeq(signature, 1, 2)
\* bytes.Equal(signature, sig)
sigMatches(sig) == sig = signature

FileHeader(raw) ==
    [Machine |-> LE(Slice(raw, 0, 2)), NSections |-> LE(Slice(raw, nSectionsOff, 2))]

parseFileHeader(c) ==
    LET sr == SectionRead(c, peOffsetPos, 4) IN
    IF sr.err # <<>> THEN [err |-> sr.err, hdr |-> <<>>, pos |-> 0] ELSE
    LET offset == LE(sr.data)
        sg == ReadFull(c, offset, 4) IN
    IF sg.err # <<>> THEN [err |-> sg.err, hdr |-> <<>>, pos |-> sg.pos] ELSE
    IF ~sigMatches(sg.data)
        THEN [err |-> <<Err("invalid PE signature", signature, sg.data)>>,
              hdr |-> <<>>, pos |-> sg.pos] ELSE
    LET raw == ReadFull(c, sg.pos, rawFileHeaderSize) IN
    IF raw.err # <<>> THEN [err |-> raw.err, hdr |-> <<>>, pos |-> raw.pos]
    ELSE [err |-> <<>>, hdr |-> <<FileHeader(raw.data)>>, pos |-> raw.pos]

----------------------------------------------------------------------------
(* Stage 2: the optional header.                                           *)

OptHeader32(raw, magic) ==
    [Magic |-> magic,
     ImageBase |-> LE(Slice(raw, imageBaseOff32, 4)),
     NDataDirs |-> LE(Slice(raw, nDataDirsOff32, 4))]

OptHeader64(raw, magic) ==
    [Magic |-> magic,
     ImageBase |-> LE(Slice(raw, imageBaseOff64, 8)),
     NDataDirs |-> LE(Slice(raw, nDataDirsOff64, 4))]

optLayoutAny32(magic) == IF magic = magic64 THEN "64" ELSE "32"
\* the switch on magic: which layout is read
optLayout(magic) ==
    IF magic = magic32 THEN "32" ELSE IF magic = magic64 THEN "64" ELSE "invalid"

parseOptHeader(c, p) ==
    LET m == ReadFull(c, p, 2) IN
    IF m.err # <<>> THEN [err |-> m.err, hdr |-> <<>>, pos |-> m.pos] ELSE
    LET magic == LE(m.data) IN
    CASE optLayout(magic) = "32" ->
            LET raw == ReadFull(c, m.pos, rawOptHeader32Size) IN
            IF raw.err # <<>> THEN [err |-> raw.err, hdr |-> <<>>, pos |-> raw.pos]
            ELSE [err |-> <<>>, hdr |-> <<OptHeader32(raw.data, magic)>>, pos |-> raw.pos]
      [] optLayout(magic) = "64" ->
            LET raw == ReadFull(c, m.pos, rawOptHeader64Size) IN
            IF raw.err # <<>> THEN [err |-> raw.err, hdr |-> <<>>, pos |-> raw.pos]
            ELSE [err |-> <<>>, hdr |-> <<OptHeader64(raw.data, magic)>>, pos |-> raw.pos]
      [] OTHER ->
            [err |-> <<Err("invalid optional header magic number",
                           <<magic32, magic64>>, <<magic>>)>>,
             hdr |-> <<>>, pos |-> m.pos]

----------------------------------------------------------------------------
(* Stages 3 and 4: the directory table and the section table.              *)

DataDirectory(raw) == [RelAddr |-> LE(Slice(raw, 0, 4)), Size |-> LE(Slice(raw, 4, 4))]

RECURSIVE readDataDirs(_, _, _)
readDataDirs(c, p, n) ==
    IF n = 0 THEN [err |-> <<>>, dirs |-> <<>>, pos |-> p] ELSE
    LET r == ReadFull(c, p, dataDirectorySize) IN
    IF r.err # <<>> THEN [err |-> r.err, dirs |-> <<>>, pos |-> r.pos] ELSE
    LET rest == readDataDirs(c, r.pos, n - 1) IN
    IF rest.err # <<>> THEN rest
    ELSE [err |-> <<>>, dirs |-> <<DataDirectory(r.data)>> \o rest.dirs, pos |-> rest.pos]

\* make([]DataDirectory, file.OptHdr.NDataDirs), one binary.Read per entry
parseDataDirs(f, c, p) == readDataDirs(c, p, f.OptHdr[1].NDataDirs)

SectionHeader(raw) ==
    [Name |-> Slice(raw, 0, 8),
     VirtualSize |-> LE(Slice(raw, sectVirtualSizeOff, 4)),
     RelAddr |-> LE(Slice(raw, sectRelAddrOff, 4)),
     DataSize |-> LE(Slice(raw, sectDataSizeOff, 4)),
     DataOffset |-> LE(Slice(raw, sectDataOffsetOff, 4))]

RECURSIVE readSectionHdrsUntilEOF(_, _, _)
readSectionHdrsUntilEOF(c, p, n) ==
    IF n = 0 THEN [err |-> <<>>, hdrs |-> <<>>, pos |-> p] ELSE
    LET r == ReadFull(c, p, rawSectionHeaderSize) IN
    IF r.err # <<>> THEN [err |-> <<>>, hdrs |-> <<>>, pos |-> r.pos] ELSE
    LET rest == readSectionHdrsUntilEOF(c, r.pos, n - 1) IN
    [err |-> <<>>, hdrs |-> <<SectionHeader(r.data)>> \o rest.hdrs, pos |-> rest.pos]

RECURSIVE readSectionHdrs(_, _, _)
\* the loop of parseSectionHdrs: NSections records, any read error returned
readSectionHdrs(c, p, n) ==
    IF n = 0 THEN [err |-> <<>>, hdrs |-> <<>>, pos |-> p] ELSE
    LET r == ReadFull(c, p, rawSectionHeaderSize) IN
    IF r.err # <<>> THEN [err |-> r.err, hdrs |-> <<>>, pos |-> r.pos] ELSE
    LET rest == readSectionHdrs(c, r.pos, n - 1) IN
    IF rest.err # <<>> THEN rest
    ELSE [err |-> <<>>, hdrs |-> <<SectionHeader(r.data)>> \o rest.hdrs, pos |-> rest.pos]

parseSectionHdrs(f, c, p) == readSectionHdrs(c, p, f.FileHdr[1].NSections)

----------------------------------------------------------------------------
(* The address translator.                                                 *)

\* File.ReadData(addr, size): the bytes of the section that contains addr.
\* The result carries the failure (no section, or a range past the content
\* or past the section's on-disk extent) instead of a shorter range.
ReadData(f, c, addr, length) ==
    LET hits == {i \in 1..Len(f.SectHdrs) :
                    /\ f.SectHdrs[i].RelAddr <= addr
                    /\ addr < f.SectHdrs[i].RelAddr + f.SectHdrs[i].VirtualSize} IN
    IF Cardinality(hits) # 1
        THEN [err |-> <<Err("AddressResolutionError", <<>>, <<addr>>)>>, data |-> <<>>]
    ELSE
    LET s == f.SectHdrs[CHOOSE i \in hits : TRUE]
        off == s.DataOffset + (addr - s.RelAddr) IN
    IF off + length > Len(c) \/ (addr - s.RelAddr) + length > s.DataSize
        THEN [err |-> <<Err("TruncationError", <<Len(c)>>, <<off, length>>)>>, data |-> <<>>]
        ELSE [err |-> <<>>, data |-> Slice(c, off, length)]

\* addr := file.OptHdr.ImageBase + uint64(relAddr): what the directory parsers
\* hand to File.ReadData
addrOf(f, relAddr) == f.OptHdr[1].ImageBase + relAddr

----------------------------------------------------------------------------
(* Directory 1: the import table.                                          *)

impINTRelAddrOff == 0
impNameRelAddrOff == 12
impIATRelAddrOff == 16

ImportDirectory(raw) ==
    [INTRelAddr |-> LE(Slice(raw, impINTRelAddrOff, 4)),
     NameRelAddr |-> LE(Slice(raw, impNameRelAddrOff, 4)),
     IATRelAddr |-> LE(Slice(raw, impIATRelAddrOff, 4))]

isLastImportDirByFirstField(raw) == LE(Slice(raw, 0, 4)) = 0
\* raw == pe.RawImportDirectory{}: the all-zero record that ends the table
isLastImportDir(raw) == raw = Zeros(rawImportDirectorySize)

RECURSIVE readImportDirs(_, _)
\* the loop of parseImportDirs over the reader on buf
readImportDirs(buf, p) ==
    LET r == ReadFull(buf, p, rawImportDirectorySize) IN
    IF r.err = <<EOF>> THEN [err |-> <<>>, dirs |-> <<>>] ELSE
    IF r.err # <<>> THEN [err |-> r.err, dirs |-> <<>>] ELSE
    IF isLastImportDir(r.data) THEN [err |-> <<>>, dirs |-> <<>>] ELSE
    LET rest == readImportDirs(buf, r.pos) IN
    IF rest.err # <<>> THEN rest
    ELSE [err |-> <<>>, dirs |-> <<ImportDirectory(r.data)>> \o rest.dirs]

parseImportDirs(f, c, dataDir) ==
    LET addr == addrOf(f, dataDir.RelAddr)
        rd == ReadData(f, c, addr, dataDir.Size) IN
    IF rd.err # <<>> THEN [err |-> rd.err, dirs |-> <<>>]
    ELSE readImportDirs(rd.data, 0)

RECURSIVE readINTs(_, _, _, _)
\* the loop of parseINTs: one entry of width rawSize per round, from addr on
readINTs(f, c, addr, rawSize) ==
    LET rd == ReadData(f, c, addr, rawSize) IN
    IF rd.err # <<>> THEN [err |-> rd.err, ints |-> <<>>] ELSE
    LET raw == LE(rd.data) IN
    IF raw = 0 THEN [err |-> <<>>, ints |-> <<>>] ELSE
    LET rest == readINTs(f, c, addr + rawSize, rawSize) IN
    IF rest.err # <<>> THEN rest
    ELSE [err |-> <<>>, ints |-> <<raw>> \o rest.ints]

parseINTsWidth4(f, c, intRelAddr) ==
    LET addr == addrOf(f, intRelAddr) IN
    CASE f.OptHdr[1].Magic \in {magic32, magic64} -> readINTs(f, c, addr, 4)
      [] OTHER -> [err |-> <<Err("invalid optional header magic number",
                                 <<magic32, magic64>>, <<f.OptHdr[1].Magic>>)>>,
                   ints |-> <<>>]
parseINTs(f, c, intRelAddr) ==
    LET addr == addrOf(f, intRelAddr) IN
    CASE f.OptHdr[1].Magic = magic32 -> readINTs(f, c, addr, 4)
      [] f.OptHdr[1].Magic = magic64 -> readINTs(f, c, addr, 8)
      [] OTHER -> [err |-> <<Err("invalid optional header magic number",
                                 <<magic32, magic64>>, <<f.OptHdr[1].Magic>>)>>,
                   ints |-> <<>>]

parseImportEntryIATIfSet(f, c, impDir) ==
    LET ints == IF impDir.INTRelAddr # 0 THEN parseINTs(f, c, impDir.INTRelAddr)
                ELSE [err |-> <<>>, ints |-> <<>>] IN
    IF ints.err # <<>> THEN [err |-> ints.err, imp |-> <<>>] ELSE
    LET iats == IF impDir.IATRelAddr # 0 THEN parseINTs(f, c, impDir.IATRelAddr)
                ELSE [err |-> <<>>, ints |-> <<>>] IN
    IF iats.err # <<>> THEN [err |-> iats.err, imp |-> <<>>]
    ELSE [err |-> <<>>,
          imp |-> <<[ImpDir |-> impDir, INTs |-> ints.ints, IATs |-> iats.ints]>>]
parseImportEntry(f, c, impDir) ==
    LET ints == IF impDir.INTRelAddr # 0 THEN parseINTs(f, c, impDir.INTRelAddr)
                ELSE [err |-> <<>>, ints |-> <<>>] IN
    IF ints.err # <<>> THEN [err |-> ints.err, imp |-> <<>>] ELSE
    LET iats == parseINTs(f, c, impDir.IATRelAddr) IN
    IF iats.err # <<>> THEN [err |-> iats.err, imp |-> <<>>]
    ELSE [err |-> <<>>,
          imp |-> <<[ImpDir |-> impDir, INTs |-> ints.ints, IATs |-> iats.ints]>>]

RECURSIVE importEntries(_, _, _)
importEntries(f, c, impDirs) ==
    IF impDirs = <<>> THEN [err |-> <<>>, imps |-> <<>>] ELSE
    LET e == parseImportEntry(f, c, Head(impDirs)) IN
    IF e.err # <<>> THEN [err |-> e.err, imps |-> <<>>] ELSE
    LET rest == importEntries(f, c, Tail(impDirs)) IN
    IF rest.err # <<>> THEN rest
    ELSE [err |-> <<>>, imps |-> e.imp \o rest.imps]

parseImports(f, c, dataDir) ==
    LET d == parseImportDirs(f, c, dataDir) IN
    IF d.err # <<>> THEN [err |-> d.err, imps |-> <<>>]
    ELSE importEntries(f, c, d.dirs)

----------------------------------------------------------------------------
(* Directory 5: the base relocation table.                                 *)

BaseRelocEntry(raw) == [Offset |-> raw % 4096, Type |-> raw \div 4096]

\* io.LimitedReader.N for the entries of a block
limitN(blockSize) == blockSize - rawBaseRelocBlockSize

RECURSIVE readRelocEntries(_, _, _)
\* binary.Read of 2-byte entries through the LimitedReader lr (n bytes left)
\* over the reader on buf at p
readRelocEntries(buf, p, n) ==
    LET avail == IF n <= 0 THEN 0 ELSE Min(n, Max(Len(buf) - p, 0)) IN
    IF avail = 0 THEN [err |-> <<>>, entries |-> <<>>, pos |-> p] ELSE
    IF avail < rawBaseRelocEntrySize
        THEN [err |-> <<ErrUnexpectedEOF>>, entries |-> <<>>, pos |-> p + avail] ELSE
    LET raw == LE(Slice(buf, p, rawBaseRelocEntrySize))
        rest == readRelocEntries(buf, p + rawBaseRelocEntrySize,
                                 n - rawBaseRelocEntrySize) IN
    IF rest.err # <<>> THEN rest
    ELSE [err |-> <<>>, entries |-> <<BaseRelocEntry(raw)>> \o rest.entries,
          pos |-> rest.pos]

parseBaseRelocBlockSeek(buf, p) ==
    LET h == ReadFull(buf, p, rawBaseRelocBlockSize) IN
    IF h.err # <<>> THEN [err |-> h.err, block |-> <<>>, pos |-> h.pos] ELSE
    LET PageRelAddr == LE(Slice(h.data, 0, 4))
        BlockSize == LE(Slice(h.data, 4, 4))
        es == readRelocEntries(buf, h.pos, limitN(BlockSize)) IN
    IF es.err # <<>> THEN [err |-> es.err, block |-> <<>>, pos |-> es.pos]
    ELSE [err |-> <<>>,
          block |-> <<[PageRelAddr |-> PageRelAddr, BlockSize |-> BlockSize,
                       Entries |-> es.entries]>>,
          pos |-> p + BlockSize]
\* one block: the header through r, the entries through the LimitedReader
parseBaseRelocBlock(buf, p) ==
    LET h == ReadFull(buf, p, rawBaseRelocBlockSize) IN
    IF h.err # <<>> THEN [err |-> h.err, block |-> <<>>, pos |-> h.pos] ELSE
    LET PageRelAddr == LE(Slice(h.data, 0, 4))
        BlockSize == LE(Slice(h.data, 4, 4))
        es == readRelocEntries(buf, h.pos, limitN(BlockSize)) IN
    IF es.err # <<>> THEN [err |-> es.err, block |-> <<>>, pos |-> es.pos]
    ELSE [err |-> <<>>,
          block |-> <<[PageRelAddr |-> PageRelAddr, BlockSize |-> BlockSize,
                       Entries |-> es.entries]>>,
          pos |-> es.pos]

RECURSIVE readBaseRelocBlocks(_, _)
readBaseRelocBlocks(buf, p) ==
    LET b == parseBaseRelocBlock(buf, p) IN
    IF b.err = <<EOF>> THEN [err |-> <<>>, blocks |-> <<>>] ELSE
    IF b.err # <<>> THEN [err |-> b.err, blocks |-> <<>>] ELSE
    LET rest == readBaseRelocBlocks(buf, b.pos) IN
    IF rest.err # <<>> THEN rest
    ELSE [err |-> <<>>, blocks |-> b.block \o rest.blocks]

parseBaseRelocBlocks(f, c, dataDir) ==
    LET addr == addrOf(f, dataDir.RelAddr)
        rd == ReadData(f, c, addr, dataDir.Size) IN
    IF rd.err # <<>> THEN [err |-> rd.err, blocks |-> <<>>]
    ELSE readBaseRelocBlocks(rd.data, 0)

----------------------------------------------------------------------------
(* Bit operations on unsigned bytes, and RawFPOData.FPOData.               *)

RECURSIVE BitAnd(_, _)
\* a & b
BitAnd(a, b) ==
    IF a = 0 \/ b = 0 THEN 0
    ELSE (a % 2) * (b % 2) + 2 * BitAnd(a \div 2, b \div 2)

\* a >> n
Shr(a, n) == a \div (2 ^ n)

fpoReservedUnshifted(bitfield) == BitAnd(bitfield, 32)
\* uint8(raw.Bitfield & 0x20 >> 5): & and >> share one precedence level and
\* associate to the left
fpoReserved(bitfield) == Shr(BitAnd(bitfield, 32), 5)

\* FrameType(raw.Bitfield & 0xC0 >> 6)
fpoFrame(bitfield) == Shr(BitAnd(bitfield, 192), 6)

\* the fields FPOData derives from the packed byte
FPOBits(bitfield) ==
    [Regs |-> BitAnd(bitfield, 7),
     HasSEH |-> BitAnd(bitfield, 8) # 0,
     UseBP |-> BitAnd(bitfield, 16) # 0,
     Reserved |-> fpoReserved(bitfield),
     Frame |-> fpoFrame(bitfield)]

FPOData(raw) ==
    [StartOffset |-> LE(Slice(raw, 0, 4)),
     FuncSize |-> LE(Slice(raw, 4, 4)),
     NLocals |-> LE(Slice(raw, 8, 4)) * 4,
     Params |-> LE(Slice(raw, 12, 2)) * 4,
     Prolog |-> raw[15],
     Bits |-> FPOBits(raw[16])]

----------------------------------------------------------------------------
(* Directory 6: the debug directory.                                       *)

dbgTypeOff == 12
dbgSizeOff == 16
dbgRelAddrOff == 20
dbgOffsetOff == 24

DebugDirectory(raw) ==
    [Type |-> LE(Slice(raw, dbgTypeOff, 4)),
     Size |-> LE(Slice(raw, dbgSizeOff, 4)),
     RelAddr |-> LE(Slice(raw, dbgRelAddrOff, 4)),
     Offset |-> LE(Slice(raw, dbgOffsetOff, 4))]

RECURSIVE readDebugDirs(_, _)
readDebugDirs(buf, p) ==
    LET r == ReadFull(buf, p, rawDebugDirectorySize) IN
    IF r.err = <<EOF>> THEN [err |-> <<>>, dirs |-> <<>>] ELSE
    IF r.err # <<>> THEN [err |-> r.err, dirs |-> <<>>] ELSE
    LET rest == readDebugDirs(buf, r.pos) IN
    IF rest.err # <<>> THEN rest
    ELSE [err |-> <<>>, dirs |-> <<DebugDirectory(r.data)>> \o rest.dirs]

parseDebugDirs(f, c, dataDir) ==
    LET addr == addrOf(f, dataDir.RelAddr)
        rd == ReadData(f, c, addr, dataDir.Size) IN
    IF rd.err # <<>> THEN [err |-> rd.err, dirs |-> <<>>]
    ELSE readDebugDirs(rd.data, 0)

\* readDebugData: through the translator when RelAddr is set, else the slice
\* expression file.Content[start:end], which panics when out of range
readDebugData(f, c, dbgDir) ==
    IF dbgDir.RelAddr # 0
        THEN LET rd == ReadData(f, c, addrOf(f, dbgDir.RelAddr), dbgDir.Size)
             IN [panic |-> <<>>, err |-> rd.err, data |-> rd.data]
    ELSE
    LET start == dbgDir.Offset
        end == start + dbgDir.Size IN
    IF start > end \/ end > Len(c)
        THEN [panic |-> <<[msg |-> "slice bounds out of range", index |-> end]>>,
              err |-> <<>>, data |-> <<>>]
        ELSE [panic |-> <<>>, err |-> <<>>, data |-> Slice(c, start, end - start)]

RECURSIVE parseCString(_)
\* the bytes before the first NUL
parseCString(b) ==
    IF b = <<>> \/ Head(b) = 0 THEN <<>> ELSE <<Head(b)>> \o parseCString(Tail(b))

DbgRecord(kind, dbgDir, info, fpo, raw) ==
    [Kind |-> kind, DbgDir |-> dbgDir, CodeViewInfo |-> info, FPOData |-> fpo,
     Content |-> raw]

parseDebugCodeViewInfo(dbgDir, buf) ==
    LET r == ReadFull(buf, 0, rawCodeViewInfoSize) IN
    IF r.err # <<>> THEN [err |-> r.err, rec |-> <<>>]
    ELSE [err |-> <<>>,
          rec |-> <<DbgRecord("CodeView", dbgDir,
                      <<[Signature |-> LE(Slice(r.data, 0, 4)),
                         Age |-> LE(Slice(r.data, 12, 4)),
                         PDBPath |-> parseCString(SubSeq(buf, r.pos + 1, Len(buf)))]>>,
                      <<>>, <<>>)>>]

RECURSIVE readFPOData(_, _)
readFPOData(buf, p) ==
    LET r == ReadFull(buf, p, rawFPODataSize) IN
    IF r.err = <<EOF>> THEN [err |-> <<>>, fpo |-> <<>>] ELSE
    IF r.err # <<>> THEN [err |-> r.err, fpo |-> <<>>] ELSE
    LET rest == readFPOData(buf, r.pos) IN
    IF rest.err # <<>> THEN rest
    ELSE [err |-> <<>>, fpo |-> <<FPOData(r.data)>> \o rest.fpo]

parseDebugFPO(dbgDir, buf) ==
    LET r == readFPOData(buf, 0) IN
    IF r.err # <<>> THEN [err |-> r.err, rec |-> <<>>]
    ELSE [err |-> <<>>, rec |-> <<DbgRecord("FPO", dbgDir, <<>>, r.fpo, <<>>)>>]

RECURSIVE debugRecords(_, _, _)
\* the loop of parseDebugData over the descriptors
debugRecords(f, c, dbgDirs) ==
    IF dbgDirs = <<>> THEN [panic |-> <<>>, err |-> <<>>, data |-> <<>>] ELSE
    LET dbgDir == Head(dbgDirs)
        buf == readDebugData(f, c, dbgDir) IN
    IF buf.panic # <<>> THEN [panic |-> buf.panic, err |-> <<>>, data |-> <<>>] ELSE
    IF buf.err # <<>> THEN [panic |-> <<>>, err |-> buf.err, data |-> <<>>] ELSE
    LET one ==
          CASE dbgDir.Type = DebugTypeCodeView ->
                 LET r == parseDebugCodeViewInfo(dbgDir, buf.data)
                 IN [panic |-> <<>>, err |-> r.err, data |-> r.rec]
            [] dbgDir.Type = DebugTypeFPO ->
                 LET r == parseDebugFPO(dbgDir, buf.data)
                 IN [panic |-> <<>>, err |-> r.err, data |-> r.rec]
            [] dbgDir.Type = DebugTypeMisc ->
                 [panic |-> <<>>, err |-> <<>>,
                  data |-> <<DbgRecord("Misc", dbgDir, <<>>, <<>>, buf.data)>>]
            [] OTHER ->
                 [panic |-> <<[msg |-> "support for debug data type not yet implemented",
                               index |-> dbgDir.Type]>>,
                  err |-> <<>>, data |-> <<>>] IN
    IF one.panic # <<>> \/ one.err # <<>> THEN one ELSE
    LET rest == debugRecords(f, c, Tail(dbgDirs)) IN
    IF rest.panic # <<>> \/ rest.err # <<>> THEN rest
    ELSE [panic |-> <<>>, err |-> <<>>, data |-> one.data \o rest.data]

parseDebugData(f, c, dataDir) ==
    LET d == parseDebugDirs(f, c, dataDir) IN
    IF d.err # <<>> THEN [panic |-> <<>>, err |-> d.err, data |-> <<>>]
    ELSE debugRecords(f, c, d.dirs)

----------------------------------------------------------------------------
(* The input buffers explored: PE images assembled field by field.         *)

\* virtual address of the section that holds the directory contents
DataRVA == 16 * 256

OptBytes(magic, imageBase, ndirs) ==
    IF magic = magic64
        THEN U16(magic) \o Zeros(imageBaseOff64) \o U64(imageBase)
             \o Zeros(nDataDirsOff64 - imageBaseOff64 - 8) \o U32(ndirs)
        ELSE U16(magic) \o Zeros(imageBaseOff32) \o U32(imageBase)
             \o Zeros(nDataDirsOff32 - imageBaseOff32 - 4) \o U32(ndirs)

DirBytes(dirs) == Flatten([i \in 1..Len(dirs) |-> U32(dirs[i][1]) \o U32(dirs[i][2])])

SectBytes(vsize, rva, dsize, doff) ==
    <<46, 116, 0, 0, 0, 0, 0, 0>> \o U32(vsize) \o U32(rva) \o U32(dsize) \o U32(doff)
    \o Zeros(rawSectionHeaderSize - 24)

\* p: [ptr, sig, magic, imageBase, nsec, ndirs, dirs, data, cut]
Build(p) ==
    LET hdrAt == peOffsetPos + 4
        dataOff == hdrAt + 4 + rawFileHeaderSize + Len(OptBytes(p.magic, 0, 0))
                   + dataDirectorySize * Len(p.dirs) + rawSectionHeaderSize * Min(p.nsec, 2)
        sects == IF p.nsec = 0 THEN <<>>
                 ELSE SectBytes(Len(p.data), DataRVA, Len(p.data), dataOff)
                      \o (IF p.nsec = 1 THEN <<>> ELSE SectBytes(16, 2 * DataRVA, 0, 0))
        full == Zeros(peOffsetPos) \o U32(p.ptr) \o p.sig
                \o U16(332) \o U16(p.nsec) \o Zeros(rawFileHeaderSize - 4)
                \o OptBytes(p.magic, p.imageBase, p.ndirs)
                \o DirBytes(p.dirs) \o sects \o p.data
    IN IF p.cut < 0 THEN full ELSE SubSeq(full, 1, Min(p.cut, Len(full)))

\* n directory entries, all zero but those m assigns (index -> <<rva, size>>)
DirsWith(n, m) == [i \in 1..n |-> IF (i - 1) \in DOMAIN m THEN m[i - 1] ELSE <<0, 0>>]

Plain ==
    [ptr |-> peOffsetPos + 4, sig |-> signature, magic |-> magic32, imageBase |-> 0,
     nsec |-> 1, ndirs |-> nDirKinds, dirs |-> DirsWith(nDirKinds, <<>>),
     data |-> Zeros(8), cut |-> -1]

\* header variations: pointer, signature bytes, magic, truncated files
HeaderImages ==
    {[Plain EXCEPT !.ptr = pt, !.sig = sg, !.magic = mg] :
        pt \in {64, 66, 4000},
        sg \in {signature, <<80, 69, 0, 1>>, <<77, 90, 0, 0>>, <<80, 69, 1, 0>>, <<0, 0, 0, 0>>},
        mg \in {magic32, magic64, 0, 263}}
    \cup {[Plain EXCEPT !.cut = ct, !.magic = mg] :
        ct \in {0, 40, 62, 64, 66, 68, 80, 88, 89, 90, 120, 190, 250, 330},
        mg \in {magic32, magic64}}

\* dispatcher variations: one or two populated entries anywhere in a table
\* of 0 .. 16 + MaxExtraDirs entries
DirEntryKinds == {<<DataRVA, 8>>, <<0, 8>>, <<DataRVA, 0>>}

DispatchImages ==
    {[Plain EXCEPT !.ndirs = n, !.dirs = DirsWith(n, j :> e)] :
        n \in {0, 2, 13} \cup (nDirKinds..(nDirKinds + MaxExtraDirs)),
        j \in 0..(nDirKinds + MaxExtraDirs), e \in DirEntryKinds}
    \cup {[Plain EXCEPT !.ndirs = n, !.dirs = DirsWith(n, (j :> <<DataRVA, 8>>) @@ (k :> <<DataRVA, 8>>))] :
        n \in nDirKinds..(nDirKinds + MaxExtraDirs),
        j \in {2, 5, 12}, k \in {2, 12, 15, 16}}
    \cup {[Plain EXCEPT !.nsec = ns] : ns \in {0, 1, 2, 3}}


\* import directories: K descriptors, then a sentinel, a sentinel and one more
\* descriptor, nothing, or stray bytes; one shared name/address table
ImpWidth(magic) == IF magic = magic64 THEN 8 ELSE 4

ImpDesc(int, name, iat) == U32(int) \o U32(0) \o U32(0) \o U32(name) \o U32(iat)

\* q: [K, term, magic, imageBase, nInts, tableTerm, iatZero]
ImportData(q) ==
    LET w == ImpWidth(q.magic)
        tail == CASE q.term = "sentinel" -> rawImportDirectorySize
                  [] q.term = "more" -> 2 * rawImportDirectorySize
                  [] q.term = "stray" -> 3
                  [] OTHER -> 0
        dirSize == q.K * rawImportDirectorySize + tail
        table == DataRVA + dirSize
        desc(i) == ImpDesc(IF i % 2 = 0 THEN 0 ELSE table, 256 + i,
                           IF q.iatZero /\ i = q.K THEN 0
                           ELSE table + w * Min(i - 1, q.nInts))
        descs == Flatten([i \in 1..q.K |-> desc(i)])
                 \o (CASE q.term = "sentinel" -> Zeros(rawImportDirectorySize)
                       [] q.term = "more" -> Zeros(rawImportDirectorySize)
                                              \o ImpDesc(0, 999, table)
                       [] q.term = "stray" -> <<1, 2, 3>>
                       [] OTHER -> <<>>)
        entries == Flatten([i \in 1..q.nInts |-> U32(6 + i) \o Zeros(w - 4)])
                   \o (IF q.tableTerm THEN Zeros(w) ELSE <<>>)
    IN [dir |-> <<DataRVA, dirSize>>, data |-> descs \o entries]

ImportParams ==
    [K : 0..MaxImports, term : {"sentinel", "more", "none", "stray"},
     magic : {magic32, magic64}, imageBase : {0, 65536}, nInts : {0, 2},
     tableTerm : BOOLEAN, iatZero : BOOLEAN]

ImportImages ==
    {[Plain EXCEPT !.magic = q.magic, !.imageBase = q.imageBase, !.ndirs = 7,
                   !.dirs = DirsWith(7, 1 :> ImportData(q).dir),
                   !.data = ImportData(q).data] : q \in ImportParams}

\* base relocation directories: one or two blocks, each storing e entries
\* after a header that declares a size of its own
RelocBlockBytes(b) ==
    U32(DataRVA) \o U32(b.size) \o Flatten([k \in 1..b.e |-> U16(3 * 4096 + k)])

RelocBlockKinds ==
    {[e |-> e, size |-> sz] :
        e \in 0..MaxEntries,
        sz \in {0, 4, rawBaseRelocBlockSize + 2 * MaxEntries + 4}
               \cup (rawBaseRelocBlockSize..(rawBaseRelocBlockSize + 2 * MaxEntries + 1))}

RelocBytes(bs) == Flatten([i \in 1..Len(bs) |-> RelocBlockBytes(bs[i])])

RelocImages ==
    {[Plain EXCEPT !.ndirs = 7,
                   !.dirs = DirsWith(7, 5 :> <<DataRVA, Len(RelocBytes(bs)) + extra>>),
                   !.data = RelocBytes(bs) \o Zeros(extra)] :
        bs \in {<<b>> : b \in RelocBlockKinds}
               \cup {<<b1, b2>> : b1 \in RelocBlockKinds,
                                  b2 \in {b \in RelocBlockKinds : b.size = rawBaseRelocBlockSize + 2 * b.e}},
        extra \in {0, 3}}

\* debug directories: one or two descriptors, each with its payload either
\* mapped (RelAddr set) or at a file offset (RelAddr zero)
DbgDescBytes(type, size, rva, off) ==
    Zeros(dbgTypeOff) \o U32(type) \o U32(size) \o U32(rva) \o U32(off)

DbgPayload(type) ==
    CASE type = DebugTypeCodeView ->
            U32(808534606) \o U32(0) \o U32(7) \o U32(1) \o <<97, 46, 112, 100, 98, 0, 120>>
      [] type = DebugTypeFPO ->
            U32(16) \o U32(32) \o U32(2) \o U16(3) \o <<5, 211>>
            \o U32(48) \o U32(8) \o U32(0) \o U16(1) \o <<0, 44>>
      [] type = DebugTypeMisc -> <<1, 2, 3, 4, 5>>
      [] OTHER -> <<9, 9>>

\* g: sequence of [type, mode]; payloads follow the descriptors in the section
DebugData(g, dataOff, base) ==
    LET n == Len(g)
        payOff(i) == base + n * rawDebugDirectorySize
                     + Len(Flatten([k \in 1..(i - 1) |-> DbgPayload(g[k].type)]))
        desc(i) ==
            LET pl == DbgPayload(g[i].type) IN
            CASE g[i].mode = "rva" ->
                    DbgDescBytes(g[i].type, Len(pl), DataRVA + payOff(i), 0)
              [] g[i].mode = "offset" ->
                    DbgDescBytes(g[i].type, Len(pl), 0, dataOff + payOff(i))
              [] g[i].mode = "short" ->
                    DbgDescBytes(g[i].type, Len(pl) - 1, 0, dataOff + payOff(i))
              [] OTHER ->
                    DbgDescBytes(g[i].type, Len(pl) + 4096, 0, dataOff + payOff(i))
    IN [dir |-> <<DataRVA + base, n * rawDebugDirectorySize>>,
        data |-> Flatten([i \in 1..n |-> desc(i)])
                 \o Flatten([i \in 1..n |-> DbgPayload(g[i].type)])]

DbgKinds ==
    [type : {1, DebugTypeCodeView, DebugTypeFPO, DebugTypeMisc},
     mode : {"rva", "offset", "short", "beyond"}]

\* file offset of the section data in an image with 7 directories, 1 section
DbgDataOff(magic) ==
    peOffsetPos + 8 + rawFileHeaderSize + Len(OptBytes(magic, 0, 0))
    + 7 * dataDirectorySize + rawSectionHeaderSize

DebugImages ==
    {[Plain EXCEPT !.magic = mg, !.ndirs = 7,
                   !.dirs = DirsWith(7, 6 :> DebugData(g, DbgDataOff(mg), 0).dir),
                   !.data = DebugData(g, DbgDataOff(mg), 0).data] :
        g \in {<<a>> : a \in DbgKinds}
              \cup {<<a, b>> : a \in {k \in DbgKinds : k.mode \in {"rva", "offset"}},
                               b \in {k \in DbgKinds : k.mode \in {"rva", "beyond"}}},
        mg \in {magic32}}

\* all three decoded directories populated, with the resource table and the
\* import address table
FullImages ==
    {LET imp == ImportData([K |-> 2, term |-> "sentinel", magic |-> mg, imageBase |-> 0,
                            nInts |-> 2, tableTerm |-> TRUE, iatZero |-> FALSE])
         rel == RelocBlockBytes([e |-> 2, size |-> 12])
         impLen == Len(imp.data)
         dbg == DebugData(<<[type |-> DebugTypeMisc, mode |-> "rva"],
                            [type |-> DebugTypeFPO, mode |-> "rva"]>>, 0, impLen + Len(rel))
     IN [Plain EXCEPT !.magic = mg, !.ndirs = n, !.nsec = 2,
            !.dirs = DirsWith(n, (1 :> imp.dir) @@ (2 :> <<DataRVA, 4>>)
                                 @@ (5 :> <<DataRVA + impLen, Len(rel)>>)
                                 @@ (6 :> dbg.dir)
                                 @@ (12 :> <<imp.dir[1] + imp.dir[2], 8>>)),
            !.data = imp.data \o rel \o dbg.data] :
        mg \in {magic32, magic64}, n \in {6, 13, nDirKinds, nDirKinds + MaxExtraDirs}}

Images == HeaderImages \cup DispatchImages \cup ImportImages \cup RelocImages
          \cup DebugImages \cup FullImages

----------------------------------------------------------------------------
(* parse: one action per stage, one per round of the dispatcher's loop.    *)

NoFile ==
    [FileHdr |-> <<>>, OptHdr |-> <<>>, DataDirs |-> <<>>, SectHdrs |-> <<>>,
     Imps |-> <<>>, BaseRelocBlocks |-> <<>>, DbgData |-> <<>>]

NoRet == [kind |-> "none", image |-> <<>>, err |-> <<>>, panic |-> <<>>]

NoFPO == Zeros(rawFPODataSize)

Init ==
    /\ content \in {Build(p) : p \in Images}
    /\ pc = "parseFileHeader"
    /\ pos = 0
    /\ file = NoFile
    /\ idx = 0
    /\ ret = NoRet
    /\ trace = <<>>
    /\ reads = <<>>
    /\ fpoIn = NoFPO
    /\ fpoOut = <<>>

\* return nil, err
ReturnErr(err) ==
    /\ ret' = [kind |-> "returned", image |-> <<>>, err |-> err, panic |-> <<>>]
    /\ pc' = "done"

\* panic(v): the call never returns to the caller of parse
Panic(v) ==
    /\ ret' = [kind |-> "panic", image |-> <<>>, err |-> <<>>, panic |-> v]
    /\ pc' = "done"

nextStageSectionsFirst(stage) ==
    CASE stage = "parseFileHeader" -> "parseOptHeader"
      [] stage = "parseOptHeader" -> "parseSectionHdrs"
      [] stage = "parseSectionHdrs" -> "parseDataDirs"
      [] stage = "parseDataDirs" -> "parseDataDirsContent"
\* the order of the calls in parse: what runs after a stage that returned nil
nextStage(stage) ==
    CASE stage = "parseFileHeader" -> "parseOptHeader"
      [] stage = "parseOptHeader" -> "parseDataDirs"
      [] stage = "parseDataDirs" -> "parseSectionHdrs"
      [] stage = "parseSectionHdrs" -> "parseDataDirsContent"

ParseFileHeader ==
    /\ pc = "parseFileHeader"
    /\ trace' = Append(trace, "parseFileHeader")
    /\ LET r == parseFileHeader(content) IN
       IF r.err # <<>>
           THEN ReturnErr(r.err) /\ UNCHANGED <<file, pos>>
           ELSE /\ file' = [file EXCEPT !.FileHdr = r.hdr]
                /\ pos' = r.pos
                /\ pc' = nextStage("parseFileHeader")
                /\ UNCHANGED ret
    /\ UNCHANGED <<content, idx, reads, fpoIn, fpoOut>>

ParseOptHeader ==
    /\ pc = "parseOptHeader"
    /\ trace' = Append(trace, "parseOptHeader")
    /\ LET r == parseOptHeader(content, pos) IN
       IF r.err # <<>>
           THEN ReturnErr(r.err) /\ UNCHANGED <<file, pos>>
           ELSE /\ file' = [file EXCEPT !.OptHdr = r.hdr]
                /\ pos' = r.pos
                /\ pc' = nextStage("parseOptHeader")
                /\ UNCHANGED ret
    /\ UNCHANGED <<content, idx, reads, fpoIn, fpoOut>>

ParseDataDirs ==
    /\ pc = "parseDataDirs"
    /\ trace' = Append(trace, "parseDataDirs")
    /\ LET r == parseDataDirs(file, content, pos) IN
       IF r.err # <<>>
           THEN ReturnErr(r.err) /\ UNCHANGED <<file, pos>>
           ELSE /\ file' = [file EXCEPT !.DataDirs = r.dirs]
                /\ pos' = r.pos
                /\ pc' = nextStage("parseDataDirs")
                /\ UNCHANGED ret
    /\ UNCHANGED <<content, idx, reads, fpoIn, fpoOut>>

ParseSectionHdrs ==
    /\ pc = "parseSectionHdrs"
    /\ trace' = Append(trace, "parseSectionHdrs")
    /\ LET r == parseSectionHdrs(file, content, pos) IN
       IF r.err # <<>>
           THEN ReturnErr(r.err) /\ UNCHANGED <<file, pos>>
           ELSE /\ file' = [file EXCEPT !.SectHdrs = r.hdrs]
                /\ pos' = r.pos
                /\ pc' = nextStage("parseSectionHdrs")
                /\ UNCHANGED ret
    /\ UNCHANGED <<content, idx, reads, fpoIn, fpoOut>>

isZeroDirDropped(dataDir) == FALSE
\* dataDir == DataDirectory{}
isZeroDir(dataDir) == dataDir.RelAddr = 0 /\ dataDir.Size = 0

dirKindShifted(i) ==
    CASE i = 1 -> "relocs" [] i = 5 -> "debug" [] i = 6 -> "imports"
      [] i \in {2, 12} -> "noop"
      [] i \in 0..(nDirKinds - 1) -> "unimplemented"
      [] OTHER -> "invalid"
\* the switch on idx of parseDataDirsContent
dirKind(i) ==
    CASE i = 1 -> "imports"
      [] i = 5 -> "relocs"
      [] i = 6 -> "debug"
      [] i \in {2, 12} -> "noop"
      [] i \in {0, 3, 4, 7, 8, 9, 10, 11, 13, 14, 15} -> "unimplemented"
      [] OTHER -> "invalid"

\* one round of the loop over file.DataDirs
ParseDataDirsContent ==
    /\ pc = "parseDataDirsContent"
    /\ idx < Len(file.DataDirs)
    /\ LET dataDir == file.DataDirs[idx + 1]
           kind == dirKind(idx) IN
       IF isZeroDir(dataDir)
           THEN /\ idx' = idx + 1
                /\ trace' = Append(trace, "skip")
                /\ UNCHANGED <<file, ret, pc, reads>>
       ELSE
       /\ trace' = Append(trace, kind)
       /\ reads' = IF kind \in {"imports", "relocs", "debug"}
                       THEN Append(reads, [idx |-> idx,
                                           addr |-> addrOf(file, dataDir.RelAddr),
                                           length |-> dataDir.Size])
                       ELSE reads
       /\ CASE kind = "imports" ->
                 LET r == parseImports(file, content, dataDir) IN
                 IF r.err # <<>> THEN ReturnErr(r.err) /\ UNCHANGED <<file, idx>>
                 ELSE /\ file' = [file EXCEPT !.Imps = r.imps]
                      /\ idx' = idx + 1
                      /\ UNCHANGED <<ret, pc>>
            [] kind = "relocs" ->
                 LET r == parseBaseRelocBlocks(file, content, dataDir) IN
                 IF r.err # <<>> THEN ReturnErr(r.err) /\ UNCHANGED <<file, idx>>
                 ELSE /\ file' = [file EXCEPT !.BaseRelocBlocks = r.blocks]
                      /\ idx' = idx + 1
                      /\ UNCHANGED <<ret, pc>>
            [] kind = "debug" ->
                 LET r == parseDebugData(file, content, dataDir) IN
                 IF r.panic # <<>> THEN Panic(r.panic) /\ UNCHANGED <<file, idx>>
                 ELSE IF r.err # <<>> THEN ReturnErr(r.err) /\ UNCHANGED <<file, idx>>
                 ELSE /\ file' = [file EXCEPT !.DbgData = r.data]
                      /\ idx' = idx + 1
                      /\ UNCHANGED <<ret, pc>>
            [] kind = "noop" ->
                 /\ idx' = idx + 1
                 /\ UNCHANGED <<file, ret, pc>>
            [] kind = "unimplemented" ->
                 /\ Panic(<<[msg |-> "support for data directory index not yet implemented",
                             index |-> idx]>>)
                 /\ UNCHANGED <<file, idx>>
            [] OTHER ->
                 /\ Panic(<<[msg |-> "invalid data directory index; expected < 16",
                             index |-> idx]>>)
                 /\ UNCHANGED <<file, idx>>
    /\ UNCHANGED <<content, pos, fpoIn, fpoOut>>

\* return file, nil
ParseReturn ==
    /\ pc = "parseDataDirsContent"
    /\ idx = Len(file.DataDirs)
    /\ ret' = [kind |-> "returned", image |-> <<file>>, err |-> <<>>, panic |-> <<>>]
    /\ pc' = "done"
    /\ trace' = Append(trace, "return")
    /\ UNCHANGED <<content, pos, file, idx, reads, fpoIn, fpoOut>>

Next ==
    \/ ParseFileHeader
    \/ ParseOptHeader
    \/ ParseDataDirs
    \/ ParseSectionHdrs
    \/ ParseDataDirsContent
    \/ ParseReturn

Spec == Init /\ [][Next]_vars

----------------------------------------------------------------------------
(* RawFPOData.FPOData on its own: every value of the packed byte.          *)

InitFPO ==
    /\ content = <<>>
    /\ pc = "fpo"
    /\ pos = 0
    /\ file = NoFile
    /\ idx = 0
    /\ ret = NoRet
    /\ trace = <<>>
    /\ reads = <<>>
    /\ fpoIn \in {U32(16) \o U32(32) \o U32(2) \o U16(pr) \o <<5, b>> :
                    b \in Byte, pr \in {0, 3}}
    /\ fpoOut = <<>>

ConvertFPO ==
    /\ pc = "fpo"
    /\ fpoOut = <<>>
    /\ fpoOut' = <<FPOData(fpoIn)>>
    /\ UNCHANGED <<content, pc, pos, file, idx, ret, trace, reads, fpoIn>>

NextFPO == ConvertFPO

SpecFPO == InitFPO /\ [][NextFPO]_vars

----------------------------------------------------------------------------
(* What the claims speak about.                                            *)

Last(sq) == sq[Len(sq)]

\* the stages before the dispatcher
StageNames == <<"parseFileHeader", "parseOptHeader", "parseDataDirs", "parseSectionHdrs">>
nStages == Len(StageNames)

\* parse stopped inside the dispatcher, at directory index idx
StoppedAtDir ==
    /\ pc = "done"
    /\ Len(trace) > nStages
    /\ Last(trace) # "return"

\* the dispatcher has gone past directory index i without stopping
PastDir(i) ==
    /\ Len(trace) > nStages
    /\ Len(file.DataDirs) > i
    /\ idx > i

\* the directory indices for which the package has no decoder
NoDecoder == {0, 3, 4, 7, 8, 9, 10, 11, 13, 14, 15}

\* the bytes a directory entry designates, read off the section headers
DirBytesOf(dataDir) ==
    LET s == file.SectHdrs[1] IN
    Slice(content, s.DataOffset + (dataDir.RelAddr - s.RelAddr), dataDir.Size)

\* C1: a non-zero entry at an index without decoder makes parse return an
\* UnsupportedFormatError that identifies the index: an error value handed
\* to the caller, no abort and no Image.
C1_UnsupportedIsReturnedError ==
    (StoppedAtDir /\ idx \in NoDecoder /\ ~isZeroDir(file.DataDirs[idx + 1]))
        => /\ ret.kind = "returned"
           /\ ret.image = <<>>
           /\ ret.err # <<>>
           /\ ret.err[1].got = <<idx>>

\* C2: parse ends in exactly one of two ways: an Image with a nil error after
\* all five stages succeeded, or a nil Image with one error; after a failing
\* stage no later stage runs.
C2_TwoOutcomes ==
    pc = "done" =>
        /\ ret.kind = "returned"
        /\ \/ /\ ret.image # <<>> /\ ret.err = <<>>
              /\ Last(trace) = "return"
              /\ SubSeq(trace, 1, nStages) = StageNames
           \/ /\ ret.image = <<>> /\ ret.err # <<>>
              /\ Last(trace) # "return"

\* the 4 bytes at the offset stored at 0x3C, when the file holds them
SigAt ==
    IF Len(content) < peOffsetPos + 4 THEN <<>>
    ELSE LET ptr == LE(Slice(content, peOffsetPos, 4)) IN
         IF ptr + 4 > Len(content) THEN <<>> ELSE Slice(content, ptr, 4)

\* C3: parseFileHeader goes on to the COFF header only when the 4 bytes at
\* the offset stored at 0x3C are 50 45 00 00; for any other 4 bytes parse
\* fails with the signature error carrying the expected and the actual bytes.
C3_SignatureChecked ==
    trace # <<>> =>
        /\ file.FileHdr # <<>> => SigAt = <<80, 69, 0, 0>>
        /\ (SigAt # <<>> /\ SigAt # <<80, 69, 0, 0>>) =>
              /\ pc = "done"
              /\ trace = <<"parseFileHeader">>
              /\ ret.image = <<>>
              /\ ret.err = <<Err("invalid PE signature", <<80, 69, 0, 0>>, SigAt)>>

C3_Witness ==
    /\ trace = <<"parseFileHeader">>
    /\ Len(content) > 64
    /\ LE(Slice(content, peOffsetPos, 4)) = 64
    /\ ret.err = <<Err("invalid PE signature", <<80, 69, 0, 0>>, <<80, 69, 0, 1>>)>>

\* offset of the optional header: after the signature and the COFF header
OptAt == LE(Slice(content, peOffsetPos, 4)) + 4 + 20

\* C4: the 32-bit layout is read exactly for magic 0x010B, the 64-bit layout
\* exactly for 0x020B; any other magic fails the parse with the magic error
\* naming 0x010B, 0x020B and the value found, and leaves no optional header.
C4_MagicSelectsLayout ==
    (Len(trace) >= 2 /\ Len(content) >= OptAt + 2) =>
        LET magic == LE(Slice(content, OptAt, 2)) IN
        /\ file.OptHdr # <<>> =>
              /\ magic \in {267, 523}
              /\ file.OptHdr[1].Magic = magic
              /\ magic = 267 =>
                    /\ file.OptHdr[1].NDataDirs = LE(Slice(content, OptAt + 92, 4))
                    /\ pc = "parseDataDirs" => pos = OptAt + 96
              /\ magic = 523 =>
                    /\ file.OptHdr[1].NDataDirs = LE(Slice(content, OptAt + 108, 4))
                    /\ pc = "parseDataDirs" => pos = OptAt + 112
        /\ magic \notin {267, 523} =>
              /\ pc = "done"
              /\ file.OptHdr = <<>>
              /\ ret.image = <<>>
              /\ ret.err = <<Err("invalid optional header magic number",
                                 <<267, 523>>, <<magic>>)>>

C4_Witness ==
    /\ Len(trace) = 2
    /\ ret.err = <<Err("invalid optional header magic number", <<267, 523>>, <<0>>)>>

\* C5: an entry with rva = 0 and size = 0 is skipped at every index: the
\* round that meets it only moves on; it causes no error, no abort and no
\* decoded record.
C5_ZeroEntrySkipped ==
    /\ \A k \in 1..(Len(trace) - nStages) :
          (k <= Len(file.DataDirs) /\ file.DataDirs[k] = [RelAddr |-> 0, Size |-> 0])
              => trace[nStages + k] = "skip"
    /\ StoppedAtDir => file.DataDirs[idx + 1] # [RelAddr |-> 0, Size |-> 0]
    /\ (Len(file.DataDirs) < 2 \/ file.DataDirs[2] = [RelAddr |-> 0, Size |-> 0])
          => file.Imps = <<>>
    /\ (Len(file.DataDirs) < 6 \/ file.DataDirs[6] = [RelAddr |-> 0, Size |-> 0])
          => file.BaseRelocBlocks = <<>>
    /\ (Len(file.DataDirs) < 7 \/ file.DataDirs[7] = [RelAddr |-> 0, Size |-> 0])
          => file.DbgData = <<>>

\* a table with zero entries at indices without decoder and beyond 15 was
\* walked to its end and the Image returned
C5_Witness ==
    /\ ret.image # <<>>
    /\ Len(file.DataDirs) > nDirKinds
    /\ \A k \in 1..Len(file.DataDirs) : file.DataDirs[k] = [RelAddr |-> 0, Size |-> 0]
    /\ \A k \in 1..Len(file.DataDirs) : trace[nStages + k] = "skip"


ZeroDir == [RelAddr |-> 0, Size |-> 0]

\* C6: a non-empty entry is routed by its index alone: 1 sets the imports
\* from the import table parser, 5 the relocation blocks from the base
\* relocation parser, 6 the debug records from the debug directory parser;
\* at 2 and 12 the round changes nothing and raises nothing.
C6_RoutedByIndex ==
    [][(pc = "parseDataDirsContent" /\ idx < Len(file.DataDirs)
            /\ file.DataDirs[idx + 1] # ZeroDir) =>
        LET d == file.DataDirs[idx + 1] IN
        /\ idx = 1 =>
              LET r == parseImports(file, content, d) IN
              /\ file'.BaseRelocBlocks = file.BaseRelocBlocks
              /\ file'.DbgData = file.DbgData
              /\ IF r.err = <<>> THEN file'.Imps = r.imps /\ idx' = 2 /\ ret' = ret
                 ELSE ret'.err = r.err /\ ret'.image = <<>>
        /\ idx = 5 =>
              LET r == parseBaseRelocBlocks(file, content, d) IN
              /\ file'.Imps = file.Imps
              /\ file'.DbgData = file.DbgData
              /\ IF r.err = <<>> THEN file'.BaseRelocBlocks = r.blocks /\ idx' = 6 /\ ret' = ret
                 ELSE ret'.err = r.err /\ ret'.image = <<>>
        /\ idx = 6 =>
              LET r == parseDebugData(file, content, d) IN
              /\ file'.Imps = file.Imps
              /\ file'.BaseRelocBlocks = file.BaseRelocBlocks
              /\ IF r.err = <<>> /\ r.panic = <<>>
                    THEN file'.DbgData = r.data /\ idx' = 7 /\ ret' = ret
                    ELSE ret'.err = r.err /\ ret'.panic = r.panic /\ ret'.image = <<>>
        /\ idx \in {2, 12} =>
              /\ file' = file
              /\ ret' = ret
              /\ pc' = pc
              /\ idx' = idx + 1
      ]_vars

\* an Image returned with imports, relocation blocks and debug records set,
\* from a table whose entries 2 and 12 are populated too
C6_Witness ==
    /\ ret.image # <<>>
    /\ Len(file.DataDirs) > 12
    /\ file.DataDirs[3] # ZeroDir
    /\ file.DataDirs[13] # ZeroDir
    /\ Len(ret.image[1].Imps) = 2
    /\ ret.image[1].Imps[1].ImpDir.NameRelAddr = 257
    /\ Len(ret.image[1].BaseRelocBlocks) = 1
    /\ Len(ret.image[1].BaseRelocBlocks[1].Entries) = 2
    /\ Len(ret.image[1].DbgData) = 2
    /\ ret.image[1].DbgData[1].Kind = "Misc"
    /\ ret.image[1].DbgData[2].Kind = "FPO"

\* C7: a returned Image never has more than 16 directory entries, whatever
\* NDataDirs the header declares.
C7_AtMostSixteenDirs ==
    ret.image # <<>> => Len(ret.image[1].DataDirs) <= 16

\* the 20-byte records of an import directory's bytes
ImpRec(buf, i) == Slice(buf, 20 * (i - 1), 20)

\* the K for which buf holds K non-zero records and then an all-zero one
SentinelAt(buf) ==
    {k \in 0..((Len(buf) \div 20) - 1) :
        /\ ImpRec(buf, k + 1) = Zeros(20)
        /\ \A i \in 1..k : ImpRec(buf, i) # Zeros(20)}

\* C8: of an import directory with K non-zero descriptors and then an
\* all-zero one, exactly K import entries are returned, in descriptor order;
\* the sentinel and what follows it yield no entry.
C8_ImportsUpToSentinel ==
    (PastDir(1) /\ file.DataDirs[2] # ZeroDir) =>
        LET buf == DirBytesOf(file.DataDirs[2]) IN
        \A k \in SentinelAt(buf) :
            /\ Len(file.Imps) = k
            /\ \A i \in 1..k :
                  file.Imps[i].ImpDir =
                      [INTRelAddr |-> LE(Slice(ImpRec(buf, i), 0, 4)),
                       NameRelAddr |-> LE(Slice(ImpRec(buf, i), 12, 4)),
                       IATRelAddr |-> LE(Slice(ImpRec(buf, i), 16, 4))]

\* two descriptors, the sentinel, and one more non-zero descriptor after it
C8_Witness ==
    /\ PastDir(1)
    /\ file.DataDirs[2] # ZeroDir
    /\ LET buf == DirBytesOf(file.DataDirs[2]) IN
       /\ SentinelAt(buf) = {2}
       /\ Len(buf) = 80
       /\ ImpRec(buf, 4) # Zeros(20)
    /\ Len(file.Imps) = 2
    /\ file.Imps[2].ImpDir.INTRelAddr = 0

\* C9: every base relocation block of a returned Image has exactly
\* (BlockSize - 8) / 2 entries, for every declared BlockSize.
C9_EntryCountFromBlockSize ==
    ret.image # <<>> =>
        \A i \in 1..Len(ret.image[1].BaseRelocBlocks) :
            LET b == ret.image[1].BaseRelocBlocks[i] IN
            Len(b.Entries) = (b.BlockSize - 8) \div 2

\* the bit layout of the packed byte: Regs bits 0-2, HasSEH bit 3, UseBP
\* bit 4, Reserved bit 5, Frame bits 6-7
FPOLayoutHolds ==
    fpoOut # <<>> =>
        LET b == fpoIn[16]
            o == fpoOut[1].Bits IN
        /\ o.Regs = b % 8
        /\ o.HasSEH = ((b \div 8) % 2 = 1)
        /\ o.UseBP = ((b \div 16) % 2 = 1)
        /\ o.Reserved = (b \div 32) % 2
        /\ o.Frame = b \div 64

\* C10 as stated: the layout, and 0b11010011 decodes to Regs=3, HasSEH=false,
\* UseBP=true, Reserved=1, Frame=3.
C10_AsStated ==
    /\ FPOLayoutHolds
    /\ (fpoOut # <<>> /\ fpoIn[16] = 211) =>
          fpoOut[1].Bits = [Regs |-> 3, HasSEH |-> FALSE, UseBP |-> TRUE,
                            Reserved |-> 1, Frame |-> 3]

\* C10 amended: the layout, and 0b11010011 decodes to Regs=3, HasSEH=false,
\* UseBP=true, Reserved=0, Frame=3 (bit 5 of that byte is clear).
C10_FPOBitfield ==
    /\ FPOLayoutHolds
    /\ (fpoOut # <<>> /\ fpoIn[16] = 211) =>
          fpoOut[1].Bits = [Regs |-> 3, HasSEH |-> FALSE, UseBP |-> TRUE,
                            Reserved |-> 0, Frame |-> 3]

C10_Witness ==
    /\ fpoOut # <<>>
    /\ fpoIn[16] = 211
    /\ fpoOut[1].Bits.Frame = 3

----------------------------------------------------------------------------
(* The section table.                                                      *)

\* NSections as the COFF header in the file states it
NSectionsAt == LE(Slice(content, LE(Slice(content, peOffsetPos, 4)) + 4 + nSectionsOff, 2))

\* offset of the first section record: after the optional header and the
\* directory table that was read
SectAt ==
    OptAt + 2
    + (IF file.OptHdr[1].Magic = magic32 THEN rawOptHeader32Size ELSE rawOptHeader64Size)
    + dataDirectorySize * Len(file.DataDirs)

\* parseSectionHdrs has run
SectionStageRan == Len(trace) >= nStages /\ SubSeq(trace, 1, nStages) = StageNames

C11_ShortTable ==
    /\ SectionStageRan
    /\ NSectionsAt = 3
    /\ pc = "done"
    /\ ret.err = <<ErrUnexpectedEOF>>

----------------------------------------------------------------------------
(* Address translation.                                                    *)

\* the range of length n at rva r lies inside section s and inside the file
InSection(s, r, n) ==
    /\ s.RelAddr <= r
    /\ r < s.RelAddr + s.VirtualSize
    /\ (r - s.RelAddr) + n <= s.DataSize
    /\ s.DataOffset + (r - s.RelAddr) + n <= Len(content)

\* C12: for a directory entry whose rva r lies inside section i, what the
\* import, base relocation and debug parsers hand to the translator makes it
\* return content[DataOffset_i + (r - VirtualAddress_i) ..] of the entry's
\* size: the value handed over is the rva, not the rva shifted by ImageBase.
C12_TranslationByRVA ==
    \A k \in 1..Len(reads) :
        LET d == file.DataDirs[reads[k].idx + 1] IN
        \A i \in 1..Len(file.SectHdrs) :
            LET s == file.SectHdrs[i] IN
            InSection(s, d.RelAddr, d.Size) =>
                ReadData(file, content, reads[k].addr, reads[k].length)
                    = [err |-> <<>>,
                       data |-> Slice(content, s.DataOffset + (d.RelAddr - s.RelAddr),
                                      d.Size)]

----------------------------------------------------------------------------
(* Order of the stages.                                                    *)

\* what a round of the dispatcher, or the final return, adds to trace
DispatchNames ==
    {"skip", "imports", "relocs", "debug", "noop", "unimplemented", "invalid", "return"}

\* the k-th stage has stored its result in the File
StageStored(k) ==
    CASE k = 1 -> file.FileHdr # <<>>
      [] k = 2 -> file.OptHdr # <<>>
      [] k = 3 -> Len(file.DataDirs) = file.OptHdr[1].NDataDirs
      [] k = 4 -> Len(file.SectHdrs) = file.FileHdr[1].NSections

\* C13: the stages run in the order file header, optional header, directory
\* table, section table, directory contents, each only after the one before
\* it has succeeded; no address translation is made before the section
\* table is stored in the File.
C13_StageOrder ==
    /\ \A k \in 1..Len(trace) :
          IF k <= nStages THEN trace[k] = StageNames[k] ELSE trace[k] \in DispatchNames
    /\ \A k \in 1..nStages : Len(trace) > k => StageStored(k)
    /\ \A k \in 1..nStages : (Len(trace) < k \/ (Len(trace) = k /\ pc = "done")) =>
          /\ k <= 1 => file.FileHdr = <<>>
          /\ k <= 2 => file.OptHdr = <<>>
          /\ k <= 3 => file.DataDirs = <<>>
          /\ k <= 4 => file.SectHdrs = <<>>
          /\ reads = <<>>
    /\ reads # <<>> => (Len(trace) > nStages /\ StageStored(nStages))

\* all five stages ran and three directories were fetched by translation
C13_Witness ==
    /\ pc = "done"
    /\ Last(trace) = "return"
    /\ SubSeq(trace, 1, nStages) = StageNames
    /\ Len(reads) = 3
    /\ Len(file.SectHdrs) = 2

----------------------------------------------------------------------------
(* Base relocation blocks of odd payload size.                             *)

\* C14: a base relocation block whose payload budget BlockSize - 8 is not a
\* multiple of the 2-byte entry width is never part of a returned Image; the
\* parse of such a directory ends with an error and stores no block.
C14_OddBudgetFails ==
    /\ ret.image # <<>> =>
          \A i \in 1..Len(ret.image[1].BaseRelocBlocks) :
              limitN(ret.image[1].BaseRelocBlocks[i].BlockSize) % rawBaseRelocEntrySize = 0
    /\ (StoppedAtDir /\ idx = 5) =>
          /\ ret.kind = "returned"
          /\ ret.image = <<>>
          /\ ret.err # <<>>
          /\ file.BaseRelocBlocks = <<>>

----------------------------------------------------------------------------
(* Import name and address tables.                                         *)

\* entry width the magic in the file selects
WidthAt == IF LE(Slice(content, OptAt, 2)) = magic64 THEN 8 ELSE 4

\* the k-th entry of width w of the table at rva rel, read off section 1
TableEntry(rel, w, k) ==
    LET s == file.SectHdrs[1] IN
    LE(Slice(content, s.DataOffset + (rel - s.RelAddr) + w * (k - 1), w))

\* vals are the non-zero entries of the table at rva rel, in order, and the
\* entry after them is zero
IsTable(vals, rel, w) ==
    /\ \A k \in 1..(Len(vals) + 1) : InSection(file.SectHdrs[1], rel + w * (k - 1), w)
    /\ \A k \in 1..Len(vals) : vals[k] = TableEntry(rel, w, k) /\ vals[k] # 0
    /\ TableEntry(rel, w, Len(vals) + 1) = 0

\* the import directory was decoded
ImportsDecoded == PastDir(1) /\ file.DataDirs[2] # ZeroDir

\* C15: parseINTs decodes consecutive entries of 4 bytes for magic 0x010B
\* and of 8 bytes for 0x020B from the given address on, stops at the first
\* zero entry and returns the non-zero entries before it, in order.
C15_INTsUpToZero ==
    ImportsDecoded =>
        \A i \in 1..Len(file.Imps) :
            LET e == file.Imps[i] IN
            /\ IsTable(e.IATs, e.ImpDir.IATRelAddr, WidthAt)
            /\ e.ImpDir.INTRelAddr # 0 => IsTable(e.INTs, e.ImpDir.INTRelAddr, WidthAt)

\* a 64-bit image: two entries of 8 bytes, the second descriptor's address
\* table starting one entry later
C15_Witness ==
    /\ ImportsDecoded
    /\ WidthAt = 8
    /\ Len(file.Imps) = 2
    /\ file.Imps[1].INTs = <<7, 8>>
    /\ file.Imps[1].IATs = <<7, 8>>
    /\ file.Imps[2].IATs = <<8>>

\* the table at rva rel ends in a zero entry inside section 1
Decodable(rel, w) ==
    \E n \in 0..(MaxEntries + 1) :
        /\ \A k \in 1..(n + 1) : InSection(file.SectHdrs[1], rel + w * (k - 1), w)
        /\ \A k \in 1..n : TableEntry(rel, w, k) # 0
        /\ TableEntry(rel, w, n + 1) = 0

\* the import round has run on a directory that section 1 maps
ImportRoundRan ==
    /\ Len(trace) > nStages
    /\ Len(file.DataDirs) > 1
    /\ file.DataDirs[2] # ZeroDir
    /\ idx > 1 \/ (idx = 1 /\ pc = "done")
    /\ file.OptHdr[1].ImageBase = 0
    /\ Len(file.SectHdrs) >= 1
    /\ InSection(file.SectHdrs[1], file.DataDirs[2].RelAddr, file.DataDirs[2].Size)

\* C16: per import descriptor the name table is decoded exactly when its rva
\* is non-zero and is empty otherwise; the address table is decoded at its
\* rva in every case, the rva zero included; a table that cannot be decoded
\* fails the parse and leaves no import entry.
C16_TablesPerDescriptor ==
    /\ ImportsDecoded =>
          \A i \in 1..Len(file.Imps) :
              LET e == file.Imps[i] IN
              /\ e.ImpDir.INTRelAddr = 0 => e.INTs = <<>>
              /\ e.ImpDir.INTRelAddr # 0 => IsTable(e.INTs, e.ImpDir.INTRelAddr, WidthAt)
              /\ IsTable(e.IATs, e.ImpDir.IATRelAddr, WidthAt)
    /\ ImportRoundRan =>
          LET buf == DirBytesOf(file.DataDirs[2]) IN
          \A k \in SentinelAt(buf) :
              (\E i \in 1..k :
                  LET int == LE(Slice(ImpRec(buf, i), impINTRelAddrOff, 4))
                      iat == LE(Slice(ImpRec(buf, i), impIATRelAddrOff, 4)) IN
                  \/ ~Decodable(iat, WidthAt)
                  \/ int # 0 /\ ~Decodable(int, WidthAt))
              => /\ idx = 1
                 /\ pc = "done"
                 /\ ret.kind = "returned"
                 /\ ret.image = <<>>
                 /\ ret.err # <<>>
                 /\ file.Imps = <<>>

\* two descriptors and the sentinel; the second has neither a name table nor
\* an address table rva, and the translation of rva 0 fails the parse
C16_Witness ==
    /\ ImportRoundRan
    /\ LET buf == DirBytesOf(file.DataDirs[2]) IN
       /\ SentinelAt(buf) = {2}
       /\ LE(Slice(ImpRec(buf, 2), impINTRelAddrOff, 4)) = 0
       /\ LE(Slice(ImpRec(buf, 2), impIATRelAddrOff, 4)) = 0
       /\ Decodable(LE(Slice(ImpRec(buf, 1), impIATRelAddrOff, 4)), WidthAt)
    /\ pc = "done"
    /\ ret.err = <<Err("AddressResolutionError", <<>>, <<0>>)>>
    /\ file.Imps = <<>>

----------------------------------------------------------------------------
(* Debug data.                                                             *)

\* the debug round has run on a directory that section 1 maps
DebugRoundRan ==
    /\ Len(trace) > nStages
    /\ Len(file.DataDirs) > 6
    /\ file.DataDirs[7] # ZeroDir
    /\ idx > 6 \/ (idx = 6 /\ pc = "done")
    /\ file.OptHdr[1].ImageBase = 0
    /\ Len(file.SectHdrs) >= 1
    /\ InSection(file.SectHdrs[1], file.DataDirs[7].RelAddr, file.DataDirs[7].Size)
    /\ file.DataDirs[7].Size % rawDebugDirectorySize = 0

\* the i-th descriptor of the debug directory, read off the file
DbgDescAt(i) ==
    DebugDirectory(Slice(DirBytesOf(file.DataDirs[7]), rawDebugDirectorySize * (i - 1),
                         rawDebugDirectorySize))

NDbgDescs == file.DataDirs[7].Size \div rawDebugDirectorySize

\* C17: for a debug descriptor with rva zero, readDebugData yields exactly
\* content[Offset .. Offset+Size) or the parse returns a TruncationError: a
\* range that ends past the content is an error value, never a clamped
\* range and never an abort.
C17_OffsetRangeChecked ==
    /\ (PastDir(6) /\ file.DataDirs[7] # ZeroDir) =>
          \A i \in 1..Len(file.DbgData) :
              LET r == file.DbgData[i] IN
              (r.DbgDir.RelAddr = 0 /\ r.Kind = "Misc") =>
                  /\ r.DbgDir.Offset + r.DbgDir.Size <= Len(content)
                  /\ r.Content = Slice(content, r.DbgDir.Offset, r.DbgDir.Size)
    /\ (DebugRoundRan /\ NDbgDescs >= 1) =>
          LET d == DbgDescAt(1) IN
          (d.RelAddr = 0 /\ d.Offset + d.Size > Len(content)) =>
              /\ pc = "done"
              /\ idx = 6
              /\ ret.kind = "returned"
              /\ ret.image = <<>>
              /\ ret.err # <<>>
              /\ ret.err[1].kind = "TruncationError"

\* the payload of descriptor d can be fetched
PayloadReadable(d) ==
    IF d.RelAddr # 0 THEN InSection(file.SectHdrs[1], d.RelAddr, d.Size)
    ELSE d.Offset + d.Size <= Len(content)

\* the record kind a type tag selects
KindOfType(t) ==
    CASE t = DebugTypeCodeView -> "CodeView"
      [] t = DebugTypeFPO -> "FPO"
      [] t = DebugTypeMisc -> "Misc"
      [] OTHER -> "unsupported"

\* C18: parseDebugData appends one record per descriptor, in descriptor
\* order, of the kind the type tag selects (CodeView and FPO decoded, Misc
\* with its payload verbatim); a descriptor of any other type makes parse
\* return an UnsupportedFormatError: an error value and no Image.
C18_DebugDispatch ==
    /\ (DebugRoundRan /\ PastDir(6)) =>
          /\ Len(file.DbgData) = NDbgDescs
          /\ \A i \in 1..NDbgDescs :
                /\ file.DbgData[i].DbgDir = DbgDescAt(i)
                /\ file.DbgData[i].Kind = KindOfType(DbgDescAt(i).Type)
                /\ file.DbgData[i].Kind = "Misc" =>
                      Len(file.DbgData[i].Content) = DbgDescAt(i).Size
    /\ (DebugRoundRan /\ NDbgDescs >= 1) =>
          LET d == DbgDescAt(1) IN
          (KindOfType(d.Type) = "unsupported" /\ PayloadReadable(d)) =>
              /\ pc = "done"
              /\ idx = 6
              /\ ret.kind = "returned"
              /\ ret.image = <<>>
              /\ ret.err # <<>>
              /\ ret.err[1].kind = "UnsupportedFormatError"

----------------------------------------------------------------------------
(* Termination of the decoding loops.                                      *)

\* directory entry i (0-based) is populated and section 1 maps its range
DirMapped(i) ==
    /\ SectionStageRan
    /\ pc # "done" \/ Len(trace) > nStages
    /\ Len(file.DataDirs) > i
    /\ file.DataDirs[i + 1] # ZeroDir
    /\ file.OptHdr[1].ImageBase = 0
    /\ Len(file.SectHdrs) >= 1
    /\ InSection(file.SectHdrs[1], file.DataDirs[i + 1].RelAddr, file.DataDirs[i + 1].Size)

\* a round of a loop that reads one record of n bytes from buf either stops
\* the loop or leaves the reader n bytes further, inside buf
RecordLoopAdvances(buf, n) ==
    \A p \in 0..Len(buf) :
        LET r == ReadFull(buf, p, n) IN
        r.err = <<>> => (r.pos = p + n /\ r.pos <= Len(buf))

\* a round of the loop of parseBaseRelocBlocks either stops the loop or
\* leaves the reader at least one block header further, inside buf
BlockLoopAdvances(buf) ==
    \A p \in 0..Len(buf) :
        LET b == parseBaseRelocBlock(buf, p) IN
        b.err = <<>> => (b.pos >= p + rawBaseRelocBlockSize /\ b.pos <= Len(buf))

\* the FPO payloads the debug directory designates
FPOPayloads ==
    IF ~(DirMapped(6) /\ file.DataDirs[7].Size % rawDebugDirectorySize = 0) THEN {}
    ELSE {readDebugData(file, content, DbgDescAt(i)).data :
            i \in {j \in 1..NDbgDescs : /\ DbgDescAt(j).Type = DebugTypeFPO
                                        /\ PayloadReadable(DbgDescAt(j))}}

\* the guard of one of the actions of parse holds
HasNextStep ==
    \/ \E k \in 1..nStages : pc = StageNames[k]
    \/ pc = "parseDataDirsContent" /\ idx <= Len(file.DataDirs)

\* C19: every decoding loop over a byte range ends: each round of
\* parseBaseRelocBlocks consumes at least the 8-byte block header or stops
\* (for BlockSize 0 and BlockSize below 8 too), each round of parseImportDirs,
\* parseDebugDirs and parseDebugFPO consumes one full record or stops, so a
\* loop makes at most (range length / record size) appending rounds; parse
\* itself always has a next step until it is done.
C19_LoopsTerminate ==
    /\ pc = "done" \/ HasNextStep
    /\ Len(trace) <= nStages + Len(file.DataDirs) + 1
    /\ DirMapped(1) =>
          /\ RecordLoopAdvances(DirBytesOf(file.DataDirs[2]), rawImportDirectorySize)
          /\ Len(file.Imps) <= file.DataDirs[2].Size \div rawImportDirectorySize
    /\ DirMapped(5) =>
          /\ BlockLoopAdvances(DirBytesOf(file.DataDirs[6]))
          /\ Len(file.BaseRelocBlocks) <= file.DataDirs[6].Size \div rawBaseRelocBlockSize
    /\ DirMapped(6) =>
          /\ RecordLoopAdvances(DirBytesOf(file.DataDirs[7]), rawDebugDirectorySize)
          /\ Len(file.DbgData) <= file.DataDirs[7].Size \div rawDebugDirectorySize
    /\ \A buf \in FPOPayloads : RecordLoopAdvances(buf, rawFPODataSize)
    /\ \A i \in 1..Len(file.DbgData) :
          file.DbgData[i].Kind = "FPO" =>
              Len(file.DbgData[i].FPOData) <= file.DbgData[i].DbgDir.Size \div rawFPODataSize

\* a block that declares BlockSize 0, then a block with one entry: both are
\* decoded and the loop has ended
C19_Witness ==
    /\ DirMapped(5)
    /\ PastDir(5)
    /\ Len(file.BaseRelocBlocks) = 2
    /\ file.BaseRelocBlocks[1].BlockSize = 0
    /\ file.BaseRelocBlocks[1].Entries = <<>>
    /\ Len(file.BaseRelocBlocks[2].Entries) = 1

====
